---- MODULE Spec2Model ----
(***************************************************************************)
(* Token verification and on-behalf-of exchange of the two example MCP     *)
(* servers:                                                                *)
(*   src/server.py              GraphTokenVerifier (claims-only strategy)  *)
(*   src/example-obo/server.py  AzureJWTVerifier (signature-verified       *)
(*                              strategy), _obo_exchange, _graph_get and   *)
(*                              the shared httpx client                    *)
(*                                                                         *)
(* A string is a sequence of lexemes: "/" (the scope separator), " "       *)
(* (whitespace) or a chunk of text holding neither, so that                *)
(* "api://cid/access_as_user" is <<"api:","/","/","cid","/",               *)
(* "access_as_user">>.  str.split(), the `"/" in s` test and the f-string  *)
(* concatenations are computed on these sequences.                         *)
(*                                                                         *)
(* A JSON claim value is a tagged record: [t |-> "absent"], [t |-> "str",  *)
(* v |-> string], [t |-> "int", v |-> n], [t |-> "list", v |-> sequence of *)
(* strings] or [t |-> "other"] (a number where a string is expected, an    *)
(* object, null).                                                          *)
(***************************************************************************)
EXTENDS Integers, Sequences, FiniteSets, TLC

VARIABLES
    now,            \* the time the verifier reads, whole seconds
    vpc,            \* verifier position: "idle", "done"
    strategy,       \* which server received the token: "graph" or "azure"
    token,          \* the bearer token handed to the verifier
    outcome,        \* what verify returned (or raised)
    n_pc,           \* scope normalizer harness position
    n_scope,        \* scope string given to the normalizer
    n_prefix,       \* namespace given to the normalizer
    n_once,         \* normalizer applied once
    n_twice,        \* normalizer applied to its own result
    phase,          \* OBO server process: "running", "stopped", "exited"
    calls,          \* per tool call: position and locals of _graph_get
    graph_client,   \* module global _graph_client: 0 is None, else instance id
    constructed,    \* number of httpx.AsyncClient instances constructed
    closed,         \* bag of aclose() runs: instance id -> number of closes
    pending_close,  \* aclose() tasks created on a running loop, not yet run
    issued          \* number of access tokens the provider has issued

vvars == <<now, vpc, strategy, token, outcome>>
nvars == <<n_pc, n_scope, n_prefix, n_once, n_twice>>
ovars == <<phase, calls, graph_client, constructed, closed, pending_close, issued>>
vars == <<vvars, nvars, ovars>>

-----------------------------------------------------------------------------
(* Bounds of the model *)

MaxTime == 3        \* the clock runs over 0..MaxTime
MaxScpLen == 3      \* scp strings: every lexeme sequence up to this length
MaxLen == 3         \* normalizer inputs: every scope string up to this length
MaxCalls == 3       \* concurrent tool calls of the OBO server

-----------------------------------------------------------------------------
(* Strings *)

RECURSIVE StringsUpTo(_, _)
StringsUpTo(alphabet, n) ==
    IF n = 0 THEN {<<>>}
    ELSE LET shorter == StringsUpTo(alphabet, n - 1)
         IN  shorter \cup {Append(s, c) : s \in shorter, c \in alphabet}

\* Python: ch in s
Contains(s, ch) == \E i \in 1..Len(s) : s[i] = ch

\* Python: s.split() -- split on runs of whitespace, no empty words
RECURSIVE SplitFrom(_, _, _)
SplitFrom(s, i, cur) ==
    IF i > Len(s)
    THEN IF cur = <<>> THEN <<>> ELSE <<cur>>
    ELSE IF s[i] = " "
         THEN IF cur = <<>>
              THEN SplitFrom(s, i + 1, <<>>)
              ELSE <<cur>> \o SplitFrom(s, i + 1, <<>>)
         ELSE SplitFrom(s, i + 1, Append(cur, s[i]))

Split(s) == SplitFrom(s, 1, <<>>)

Range(f) == {f[i] : i \in DOMAIN f}

Absent == [t |-> "absent"]
JStr(s) == [t |-> "str", v |-> s]
JInt(n) == [t |-> "int", v |-> n]
JList(l) == [t |-> "list", v |-> l]
JOther == [t |-> "other"]

-----------------------------------------------------------------------------
(* Scope normalization: AzureJWTVerifier._extract_scopes *)

\* a normalizer that prefixes whatever it is given
prefix_scope_always(s, scope_prefix) == scope_prefix \o <<"/">> \o s

\* the conditional expression of the list comprehension:
\*   s if "/" in s else f"{self._scope_prefix}/{s}"
prefix_scope(s, scope_prefix) ==
    IF Contains(s, "/") THEN s ELSE scope_prefix \o <<"/">> \o s

\* an override that returns the scopes of the base class as they are
extract_scopes_unprefixed(scopes, scope_prefix) == scopes

\* scopes is what super()._extract_scopes(claims) returned
extract_scopes(scopes, scope_prefix) ==
    IF scope_prefix # <<>>
    THEN [i \in DOMAIN scopes |-> prefix_scope(scopes[i], scope_prefix)]
    ELSE scopes

-----------------------------------------------------------------------------
(* Configuration of the two servers *)

tenant_id == "TENANT"
azure_client_id == "CLIENTID"

\* src/server.py
graph_audience == <<"00000003-0000-0000-c000-000000000000">>
graph_issuer == JStr(<<"https:", "/", "/", "sts.windows.net", "/", tenant_id, "/">>)
graph_required_scopes == {<<"User.Read">>, <<"Mail.Read">>}

\* GraphTokenVerifier.__init__: [issuer] if isinstance(issuer, str) else issuer
init_issuers(issuer) == IF issuer.t = "str" THEN <<issuer.v>> ELSE issuer.v

graph_issuers == init_issuers(graph_issuer)

\* src/example-obo/server.py
identifier_uri == <<"api:", "/", "/", azure_client_id>>
azure_audience == <<azure_client_id>>
azure_issuer ==
    <<"https:", "/", "/", "login.microsoftonline.com", "/", tenant_id, "/", "v2.0">>
azure_required_scopes == {identifier_uri \o <<"/", "access_as_user">>}
azure_scope_prefix == identifier_uri

-----------------------------------------------------------------------------
(* Bearer tokens presented to a verifier *)

\* the scp claim as a string: every string over these lexemes up to
\* MaxScpLen, and the strings the two servers' required scopes need
ScpLexemes == {"User.Read", "Mail.Read", " "}

ScpStrings ==
    StringsUpTo(ScpLexemes, MaxScpLen) \cup
    { <<"User.Read", " ", "Mail.Read">>,
      <<"Mail.Read", " ", " ", "User.Read", " ">>,
      <<"access_as_user">>,
      <<"access_as_user", " ", "User.Read">>,
      identifier_uri \o <<"/", "access_as_user">>,
      identifier_uri \o <<"/", "access_as_user", " ", "User.Read">>,
      <<"other", "/", "access_as_user">> }

ScpValues ==
    {Absent, JOther, JList(<<<<"User.Read">>>>),
     JList(<<<<"User.Read">>, <<"Mail.Read">>>>)}
    \cup {JStr(s) : s \in ScpStrings}

\* exp: absent, not a number (a string int() rejects), or a timestamp
ExpValues == {Absent, JOther} \cup {JInt(n) : n \in 1..(MaxTime + 1)}

\* aud relative to the audience the receiving server is configured with
AudValues(audience) ==
    {Absent, JOther, JStr(audience), JStr(<<"some-other-app">>),
     JList(<<<<"some-other-app">>, audience>>), JList(<<<<"some-other-app">>>>)}

\* iss relative to the receiving server's first configured issuer
IssValues(issuer) ==
    {Absent, JStr(issuer), JStr(<<"https:", "/", "/", "evil.example", "/">>)}

\* appid and azp, read for the Principal's client identifier
ClientIdValues ==
    { [appid |-> Absent, azp |-> Absent],
      [appid |-> JStr(<<"app-1">>), azp |-> Absent],
      [appid |-> Absent, azp |-> JStr(<<"app-2">>)] }

Claims(audience, issuer) ==
    { [exp |-> e, aud |-> a, iss |-> i, scp |-> s, appid |-> c.appid, azp |-> c.azp] :
        e \in ExpValues, a \in AudValues(audience), i \in IssValues(issuer),
        s \in ScpValues, c \in ClientIdValues }

NoClaims ==
    [exp |-> Absent, aud |-> Absent, iss |-> Absent, scp |-> Absent,
     appid |-> Absent, azp |-> Absent]

\* raw is "empty" (the empty string), "malformed" (not three base64url JSON
\* segments) or "jwt"; sig says whether the signature verifies under the
\* provider's published keys
Tokens(audience, issuer) ==
    { [raw |-> "empty", sig |-> FALSE, claims |-> NoClaims],
      [raw |-> "malformed", sig |-> FALSE, claims |-> NoClaims] }
    \cup { [raw |-> "jwt", sig |-> g, claims |-> c] :
             g \in BOOLEAN, c \in Claims(audience, issuer) }

None == [kind |-> "none"]
Raised(exc) == [kind |-> "raise", exc |-> exc]

-----------------------------------------------------------------------------
(* src/server.py: GraphTokenVerifier.verify_token *)

\* an expiry check that grants two seconds of leeway
expired_with_leeway(exp, t) == exp <= t - 2

\* options verify_exp, no leeway given: pyjwt raises ExpiredSignatureError
\* when exp <= now (releases before 2.6 compared with <, which differs at
\* the one second exp = now only)
expired(exp, t) == exp <= t

\* verify_iss switched off
issuer_unchecked(iss, issuers) == iss.t = "str"

\* options verify_iss with issuer=self.issuers (a list): membership
issuer_ok(iss, issuers) ==
    /\ iss.t = "str"
    /\ \E k \in DOMAIN issuers : issuers[k] = iss.v

\* verify_aud switched off
audience_unchecked(aud, audience) == aud.t \in {"str", "list"}

\* options verify_aud with audience=self.audience and no strict_aud: the
\* claim is one audience or a list of audiences, one of which must match
audience_ok(aud, audience) ==
    \/ aud.t = "str" /\ aud.v = audience
    \/ aud.t = "list" /\ \E k \in DOMAIN aud.v : aud.v[k] = audience

\* pyjwt.decode(token, key=None, algorithms=["RS256"], audience=..., issuer=...,
\*   options={verify_signature: False, verify_exp, verify_aud, verify_iss,
\*            require: [exp, aud, iss]})
\* "claims" (the payload is returned) or "error" (a PyJWTError is raised).
\* The signature is not looked at.
pyjwt_decode(tok, audience, issuers, t) ==
    IF tok.raw # "jwt" THEN "error"
    ELSE LET c == tok.claims IN
         IF "absent" \in {c.exp.t, c.aud.t, c.iss.t} THEN "error"
         ELSE IF c.exp.t # "int" THEN "error"
         ELSE IF expired(c.exp.v, t) THEN "error"
         ELSE IF ~issuer_ok(c.iss, issuers) \/ ~audience_ok(c.aud, audience)
              THEN "error"
         ELSE "claims"

\* claims.get("appid") or claims.get("azp") or "unknown"
client_id_of(c) ==
    IF c.appid.t = "str" /\ c.appid.v # <<>> THEN c.appid.v
    ELSE IF c.azp.t = "str" /\ c.azp.v # <<>> THEN c.azp.v
    ELSE <<"unknown">>

\* lines 73-86, entered with the decoded claims
scope_check(tok) ==
    LET c == tok.claims IN
    IF c.scp.t \notin {"absent", "str"}
    THEN Raised("AttributeError")     \* claims.get("scp", "").split()
    ELSE LET token_scopes == Range(Split(IF c.scp.t = "str" THEN c.scp.v ELSE <<>>))
             missing == graph_required_scopes \ token_scopes
         IN  IF missing # {} THEN None
             ELSE [kind |-> "principal", token |-> tok,
                   client_id |-> client_id_of(c), scopes |-> token_scopes,
                   expires_at |-> c.exp.v, claims |-> c]

\* verify_token(token) at time t
verify_token(tok, t) ==
    IF tok.raw = "empty" THEN None
    ELSE IF pyjwt_decode(tok, graph_audience, graph_issuers, t) = "error" THEN None
    ELSE scope_check(tok)

-----------------------------------------------------------------------------
(* src/example-obo/server.py: AzureJWTVerifier.load_access_token *)

\* JWTVerifier._extract_scopes of the base class: the scope claim is a
\* space-delimited string
base_extract_scopes(c) == IF c.scp.t = "str" THEN Split(c.scp.v) ELSE <<>>

\* JWTVerifier.load_access_token of the base class, configured at lines
\* 139-146: signature, expiry with no grace window, audience, issuer, then
\* the scopes this class's _extract_scopes returns against required_scopes.
\* Any failed step returns None.
JWTVerifier_load_access_token(tok, t) ==
    LET c == tok.claims IN
    IF tok.raw # "jwt" \/ ~tok.sig THEN None
    ELSE IF c.exp.t # "int" \/ c.exp.v < t THEN None
    ELSE IF ~(c.aud.t = "str" /\ c.aud.v = azure_audience) THEN None
    ELSE IF ~(c.iss.t = "str" /\ c.iss.v = azure_issuer) THEN None
    ELSE LET scopes == extract_scopes(base_extract_scopes(c), azure_scope_prefix)
         IN  IF ~(azure_required_scopes \subseteq Range(scopes)) THEN None
             ELSE [kind |-> "principal", token |-> tok,
                   client_id |-> client_id_of(c), scopes |-> Range(scopes),
                   expires_at |-> c.exp.v, claims |-> c]

\* lines 106-136: the unverified decode only logs and swallows its own
\* exceptions; the result of the base class is returned as it is
load_access_token(tok, t) == JWTVerifier_load_access_token(tok, t)

-----------------------------------------------------------------------------
(* The verifier under every token *)

NoToken == [raw |-> "empty", sig |-> FALSE, claims |-> NoClaims]

\* time passes before a token arrives
Tick ==
    /\ vpc = "idle"
    /\ now < MaxTime
    /\ now' = now + 1
    /\ UNCHANGED <<vpc, strategy, token, outcome, nvars, ovars>>

\* the claims-only server is handed a bearer token
GraphVerify ==
    /\ vpc = "idle"
    /\ \E tok \in Tokens(graph_audience, graph_issuers[1]) :
            /\ token' = tok
            /\ outcome' = verify_token(tok, now)
    /\ strategy' = "graph"
    /\ vpc' = "done"
    /\ UNCHANGED <<now, nvars, ovars>>

\* the on-behalf-of server is handed a bearer token
AzureVerify ==
    /\ vpc = "idle"
    /\ \E tok \in Tokens(azure_audience, azure_issuer) :
            /\ token' = tok
            /\ outcome' = load_access_token(tok, now)
    /\ strategy' = "azure"
    /\ vpc' = "done"
    /\ UNCHANGED <<now, nvars, ovars>>

\* the request is answered; the verifier keeps no state
VerifyDone ==
    /\ vpc = "done"
    /\ vpc' = "idle"
    /\ strategy' = "none"
    /\ token' = NoToken
    /\ outcome' = None
    /\ UNCHANGED <<now, nvars, ovars>>

-----------------------------------------------------------------------------
(* The scope normalizer on every scope string and namespace *)

ScopeStrings ==
    StringsUpTo({"a", "b", "/"}, MaxLen) \cup
    {<<"access_as_user">>, <<"api:", "/", "/", "X", "/", "access_as_user">>}

\* the configured prefix is f"api://{client_id}", never empty
Namespaces ==
    (StringsUpTo({"api:", "/", "X"}, MaxLen) \ {<<>>}) \cup {<<"api:", "/", "/", "X">>}

NormalizeInput ==
    /\ n_pc = "idle"
    /\ n_scope' \in ScopeStrings
    /\ n_prefix' \in Namespaces
    /\ n_pc' = "input"
    /\ UNCHANGED <<n_once, n_twice, vvars, ovars>>

NormalizeOnce ==
    /\ n_pc = "input"
    /\ n_once' = extract_scopes(<<n_scope>>, n_prefix)
    /\ n_pc' = "once"
    /\ UNCHANGED <<n_scope, n_prefix, n_twice, vvars, ovars>>

NormalizeTwice ==
    /\ n_pc = "once"
    /\ n_twice' = extract_scopes(n_once, n_prefix)
    /\ n_pc' = "twice"
    /\ UNCHANGED <<n_scope, n_prefix, n_once, vvars, ovars>>

-----------------------------------------------------------------------------
(* src/example-obo/server.py: the shared client, _obo_exchange, _graph_get *)

\* a getter without the `is None` guard: a new client on every use
get_graph_client_unguarded(gc, cnt) ==
    [client |-> cnt + 1, graph_client |-> cnt + 1, constructed |-> cnt + 1]

\* An httpx.AsyncClient instance is named by its construction number 1, 2, ...;
\* 0 is None.  _get_graph_client() has no await in it and runs in one step.
\* cnt is the number of instances constructed so far.
get_graph_client(gc, cnt) ==
    IF gc = 0
    THEN [client |-> cnt + 1, graph_client |-> cnt + 1, constructed |-> cnt + 1]
    ELSE [client |-> gc, graph_client |-> gc, constructed |-> cnt]

\* one more aclose() run to completion on instance i
Closed(cl, i) ==
    [k \in DOMAIN cl \cup {i} |-> IF k = i THEN (IF i \in DOMAIN cl THEN cl[i] ELSE 0) + 1
                                  ELSE cl[k]]

\* _close_graph_client(): loop_running is loop and loop.is_running()
close_graph_client(gc, loop_running, cl, pend) ==
    IF gc = 0
    THEN [graph_client |-> gc, closed |-> cl, pending_close |-> pend]
    ELSE IF loop_running
         THEN [graph_client |-> 0, closed |-> cl, pending_close |-> pend \cup {gc}]
         ELSE [graph_client |-> 0, closed |-> Closed(cl, gc), pending_close |-> pend]

\* what acquire_token_on_behalf_of can return when the provider would issue
\* access token tok: the token, an error, neither, or a token beside a warning
ProviderResults(tok) ==
    { [access_token |-> JInt(tok), error |-> Absent, error_description |-> Absent],
      [access_token |-> JInt(tok), error |-> JStr("interaction_hint"),
       error_description |-> Absent],
      [access_token |-> Absent, error |-> JStr("invalid_grant"),
       error_description |-> JStr("AADSTS50013")],
      [access_token |-> Absent, error |-> Absent, error_description |-> Absent] }

\* dict.get(key): the value, or None
DictGet(v) == IF v.t = "absent" THEN "None" ELSE v.v

\* an exchange that swallows the failure and returns no token
obo_exchange_swallow(result) ==
    IF result.access_token.t = "absent"
    THEN [kind |-> "return", exc |-> "", msg |-> <<>>, value |-> 0]
    ELSE [kind |-> "return", exc |-> "", msg |-> <<>>, value |-> result.access_token.v]

\* _obo_exchange(assertion), given the result of acquire_token_on_behalf_of
obo_exchange(result) ==
    IF result.access_token.t = "absent"
    THEN [kind |-> "raise", exc |-> "RuntimeError",
          msg |-> <<"OBO token exchange failed:", DictGet(result.error),
                    DictGet(result.error_description)>>,
          value |-> 0]
    ELSE [kind |-> "return", exc |-> "", msg |-> <<>>, value |-> result.access_token.v]

NotExchanged == [kind |-> "", exc |-> "", msg |-> <<>>, value |-> 0]

NoResult == [access_token |-> Absent, error |-> Absent, error_description |-> Absent]

\* a tool call that has not entered _graph_get.  bearer, graph_token, client
\* are the locals token, graph_token, client (0 is None / unset); result and
\* exchange record what the exchange of this call got and gave; exchanges and
\* gets count its exchange attempts and its GETs; sent is the bearer token of
\* its GET; closed_at_send says the client was closed when the GET was issued.
IdleCall ==
    [pc |-> "idle", bearer |-> 0, graph_token |-> 0, client |-> 0,
     result |-> NoResult, exchange |-> NotExchanged, exchanges |-> 0, gets |-> 0,
     sent |-> 0, closed_at_send |-> FALSE, outcome |-> ""]

\* _graph_get, lines 177-179: get_access_token() gives the verified token b
\* (1) or None (0)
graph_get_start(call, b) ==
    IF b = 0
    THEN [call EXCEPT !.pc = "done", !.outcome = "raise RuntimeError: No access token available"]
    ELSE [call EXCEPT !.pc = "exchange", !.bearer = b]

\* a _graph_get that tries the exchange again after a failure
graph_get_exchange_retry(call, result) ==
    LET ex == obo_exchange(result)
        c1 == [call EXCEPT !.result = result, !.exchange = ex, !.exchanges = @ + 1]
    IN  IF ex.kind = "raise"
        THEN c1
        ELSE [c1 EXCEPT !.pc = "send", !.graph_token = ex.value]

\* _graph_get, line 181: graph_token = await _obo_exchange(token.token)
graph_get_exchange(call, result) ==
    LET ex == obo_exchange(result)
        c1 == [call EXCEPT !.result = result, !.exchange = ex, !.exchanges = @ + 1]
    IN  IF ex.kind = "raise"
        THEN [c1 EXCEPT !.pc = "done", !.outcome = "raise RuntimeError: OBO token exchange failed"]
        ELSE [c1 EXCEPT !.pc = "send", !.graph_token = ex.value]

\* _graph_get, lines 183-187: client = _get_graph_client(); the GET is issued
\* on it with Authorization: Bearer graph_token
graph_get_send(call, client, is_closed) ==
    [call EXCEPT !.pc = "await", !.client = client, !.gets = @ + 1,
                 !.sent = call.graph_token, !.closed_at_send = is_closed]

\* _graph_get, lines 188-189: resp.raise_for_status(); return resp.json()
graph_get_response(call, ok) ==
    [call EXCEPT !.pc = "done",
                 !.outcome = IF ok THEN "return" ELSE "raise HTTPStatusError"]

CallIds == 1..MaxCalls

\* the event loop runs while mcp.run() does
loop_running == phase = "running"

GraphGetStart(c) ==
    /\ loop_running
    /\ calls[c].pc = "idle"
    /\ \E b \in {0, 1} : calls' = [calls EXCEPT ![c] = graph_get_start(@, b)]
    /\ UNCHANGED <<phase, graph_client, constructed, closed, pending_close, issued,
                   vvars, nvars>>

GraphGetExchange(c) ==
    /\ loop_running
    /\ calls[c].pc = "exchange"
    /\ \E r \in ProviderResults(issued + 1) :
          /\ calls' = [calls EXCEPT ![c] = graph_get_exchange(@, r)]
          /\ issued' = IF r.access_token.t = "absent" THEN issued ELSE issued + 1
    /\ UNCHANGED <<phase, graph_client, constructed, closed, pending_close, vvars, nvars>>

GraphGetSend(c) ==
    /\ loop_running
    /\ calls[c].pc = "send"
    /\ LET g == get_graph_client(graph_client, constructed) IN
          /\ graph_client' = g.graph_client
          /\ constructed' = g.constructed
          /\ calls' = [calls EXCEPT
                         ![c] = graph_get_send(@, g.client, g.client \in DOMAIN closed)]
    /\ UNCHANGED <<phase, closed, pending_close, issued, vvars, nvars>>

GraphGetResponse(c) ==
    /\ loop_running
    /\ calls[c].pc = "await"
    /\ \E ok \in BOOLEAN : calls' = [calls EXCEPT ![c] = graph_get_response(@, ok)]
    /\ UNCHANGED <<phase, graph_client, constructed, closed, pending_close, issued,
                   vvars, nvars>>

\* __main__, lines 216-221: mcp.run() returns or raises; its event loop is
\* gone and the calls still in flight never resume
RunEnds ==
    /\ phase = "running"
    /\ phase' = "stopped"
    /\ calls' = [c \in CallIds |->
                   IF calls[c].pc \in {"idle", "done"} THEN calls[c]
                   ELSE [calls[c] EXCEPT !.pc = "cancelled"]]
    /\ UNCHANGED <<graph_client, constructed, closed, pending_close, issued, vvars, nvars>>

\* __main__, lines 222-223: finally: _close_graph_client()
CloseGraphClient ==
    /\ phase = "stopped"
    /\ LET r == close_graph_client(graph_client, loop_running, closed, pending_close) IN
          /\ graph_client' = r.graph_client
          /\ closed' = r.closed
          /\ pending_close' = r.pending_close
    /\ phase' = "exited"
    /\ UNCHANGED <<calls, constructed, issued, vvars, nvars>>

-----------------------------------------------------------------------------
(* Specifications *)

Init ==
    /\ now = 0
    /\ vpc = "idle"
    /\ strategy = "none"
    /\ token = NoToken
    /\ outcome = None
    /\ n_pc = "idle"
    /\ n_scope = <<>>
    /\ n_prefix = <<>>
    /\ n_once = <<>>
    /\ n_twice = <<>>
    /\ phase = "running"
    /\ calls = [c \in CallIds |-> IdleCall]
    /\ graph_client = 0
    /\ constructed = 0
    /\ closed = <<>>
    /\ pending_close = {}
    /\ issued = 0

VerifyNext == Tick \/ GraphVerify \/ AzureVerify \/ VerifyDone

VerifySpec == Init /\ [][VerifyNext]_vars

NormalizeNext == NormalizeInput \/ NormalizeOnce \/ NormalizeTwice

NormalizeSpec == Init /\ [][NormalizeNext]_vars

OboNext ==
    \/ \E c \in CallIds : GraphGetStart(c)
    \/ \E c \in CallIds : GraphGetExchange(c)
    \/ \E c \in CallIds : GraphGetSend(c)
    \/ \E c \in CallIds : GraphGetResponse(c)
    \/ RunEnds
    \/ CloseGraphClient

OboSpec == Init /\ [][OboNext]_vars

-----------------------------------------------------------------------------
(* Properties of the verifiers, under VerifySpec *)

Verified == vpc = "done"

RequiredScopes == IF strategy = "graph" THEN graph_required_scopes ELSE azure_required_scopes

ConfiguredAudience == IF strategy = "graph" THEN graph_audience ELSE azure_audience

AllowedIssuers == IF strategy = "graph" THEN Range(graph_issuers) ELSE {azure_issuer}

\* the scope identifiers a token's scp claim names
ScpNames(c) ==
    IF c.scp.t = "str" THEN Range(Split(c.scp.v))
    ELSE IF c.scp.t = "list" THEN Range(c.scp.v)
    ELSE {}

Qualified(s) == Contains(s, "/")

Qualify(s, ns) == IF Qualified(s) THEN s ELSE ns \o <<"/">> \o s

\* the token's scope set as the receiving strategy reads it: normalized in
\* the signature-verified strategy, as written in the claims-only one
TokenScopeSet ==
    IF strategy = "azure"
    THEN {Qualify(s, identifier_uri) : s \in ScpNames(token.claims)}
    ELSE ScpNames(token.claims)

\* C1: a token whose scope set is not a superset of the required scopes is
\* rejected (None) by both strategies; {A} against required {A, B} is rejected.
C1_MissingScopeRejected ==
    (Verified /\ token.raw = "jwt" /\ ~(RequiredScopes \subseteq TokenScopeSet))
        => outcome = None

\* C2: a token whose exp is strictly less than the current time is rejected,
\* with no grace window, whatever its other claims are.
C2_ExpiredRejected ==
    (Verified /\ token.raw = "jwt" /\ token.claims.exp.t = "int"
        /\ token.claims.exp.v < now)
        => outcome = None

\* expired by one second and valid in everything else, in each strategy
C2_Witness ==
    /\ Verified /\ strategy = "graph"
    /\ token.raw = "jwt" /\ token.sig
    /\ token.claims.exp.t = "int" /\ token.claims.exp.v = now - 1
    /\ token.claims.aud.t = "str" /\ token.claims.aud.v = ConfiguredAudience
    /\ token.claims.iss.t = "str" /\ token.claims.iss.v \in AllowedIssuers
    /\ RequiredScopes \subseteq TokenScopeSet
    /\ outcome = None

\* C3 as stated: a token whose aud claim differs from the configured
\* audience is rejected (no Principal is returned for it), whatever its other
\* claims are.
C3_AudDiffersRejected ==
    (Verified /\ token.raw = "jwt"
        /\ ~(token.claims.aud.t = "str" /\ token.claims.aud.v = ConfiguredAudience))
        => outcome.kind # "principal"

\* the audiences an aud claim names: itself, or the entries of a list
AudNames(aud) ==
    IF aud.t = "str" THEN {aud.v} ELSE IF aud.t = "list" THEN Range(aud.v) ELSE {}

\* C3 amended: a token whose aud claim neither is the configured audience nor
\* is a list naming it is rejected, whatever its other claims are.
C3_AudNotNamedRejected ==
    (Verified /\ token.raw = "jwt" /\ ConfiguredAudience \notin AudNames(token.claims.aud))
        => outcome = None

\* another audience, everything else valid: rejected
C3_Witness ==
    /\ Verified /\ strategy = "graph"
    /\ token.raw = "jwt" /\ token.sig
    /\ token.claims.exp.t = "int" /\ token.claims.exp.v > now
    /\ token.claims.aud.t = "list" /\ ConfiguredAudience \notin AudNames(token.claims.aud)
    /\ token.claims.iss.t = "str" /\ token.claims.iss.v \in AllowedIssuers
    /\ RequiredScopes \subseteq TokenScopeSet
    /\ outcome = None

\* C4: a token whose iss claim is not a member of the configured issuer
\* allow-list (a single issuer string being a one-element list) is rejected.
C4_IssNotAllowedRejected ==
    /\ graph_issuers = <<graph_issuer.v>>
    /\ (Verified /\ token.raw = "jwt"
          /\ ~(token.claims.iss.t = "str" /\ token.claims.iss.v \in AllowedIssuers))
          => outcome = None

\* a foreign issuer, everything else valid: rejected
C4_Witness ==
    /\ Verified /\ strategy = "graph"
    /\ token.raw = "jwt" /\ token.sig
    /\ token.claims.exp.t = "int" /\ token.claims.exp.v > now
    /\ token.claims.aud.t = "str" /\ token.claims.aud.v = ConfiguredAudience
    /\ token.claims.iss.t = "str" /\ token.claims.iss.v \notin AllowedIssuers
    /\ RequiredScopes \subseteq TokenScopeSet
    /\ outcome = None

\* C5: for every input token, verify returns a Principal or None; it never
\* raises past its boundary.
C5_NeverRaises == Verified => outcome.kind \in {"none", "principal"}

\* C8 as stated: every Principal returned by either strategy has only
\* qualified (namespace-prefixed) scope identifiers.
C8_PrincipalScopesQualified ==
    (Verified /\ outcome.kind = "principal") => \A s \in outcome.scopes : Qualified(s)

\* C8 amended: every Principal of the signature-verified strategy has only
\* qualified scope identifiers, the token's own qualified ones and the short
\* ones prefixed with the namespace; a Principal of the claims-only strategy
\* carries the words of the scp claim as they are written.
C8_AzurePrincipalScopesQualified ==
    (Verified /\ outcome.kind = "principal") =>
        /\ strategy = "azure" =>
              /\ \A s \in outcome.scopes : Qualified(s)
              /\ outcome.scopes = TokenScopeSet
        /\ strategy = "graph" => outcome.scopes = ScpNames(token.claims)

\* a token carrying the short form is accepted with the qualified form
C8_Witness ==
    /\ Verified /\ strategy = "azure"
    /\ token.claims.scp = JStr(<<"access_as_user">>)
    /\ outcome.kind = "principal"
    /\ outcome.scopes = azure_required_scopes

-----------------------------------------------------------------------------
(* Properties of the scope normalizer, under NormalizeSpec *)

-----------------------------------------------------------------------------
(* Properties of the on-behalf-of server, under OboSpec *)

Exchanged(c) == calls[c].exchanges > 0

NoTokenInResult(c) == Exchanged(c) /\ calls[c].result.access_token.t = "absent"

UsedClient(c) == calls[c].client # 0

\* C9: over any interleaving of concurrent calls followed by shutdown, at most
\* one client instance is constructed, every call uses that instance, no call
\* uses a closed client, and once the shutdown path has run the instance is
\* closed exactly once and none is left unclosed.
C9_OneClientClosedOnce ==
    /\ constructed <= 1
    /\ \A c \in CallIds : UsedClient(c) => calls[c].client = 1 /\ constructed = 1
    /\ \A c \in CallIds : ~calls[c].closed_at_send
    /\ \A c \in CallIds : calls[c].pc = "await" => calls[c].client \notin DOMAIN closed
    /\ \A i \in DOMAIN closed : i \in 1..constructed /\ closed[i] = 1
    /\ phase # "exited" => closed = <<>>
    /\ phase = "exited" =>
          /\ graph_client = 0
          /\ pending_close = {}
          /\ \A i \in 1..constructed : i \in DOMAIN closed /\ closed[i] = 1

\* two calls shared the one client, the server shut down and closed it
C9_Witness ==
    /\ phase = "exited"
    /\ constructed = 1
    /\ DOMAIN closed = {1} /\ closed[1] = 1
    /\ \E c, d \in CallIds : c # d /\ calls[c].client = 1 /\ calls[d].client = 1

\* C10: every _graph_get makes exactly one exchange attempt before its GET
\* (no retry), sends the token its own exchange returned (no reuse of another
\* call's), issues the GET only after that exchange succeeded, and issues no
\* GET when there is no bearer token or the exchange failed.
C10_OneExchangePerGet ==
    \A c \in CallIds :
        /\ calls[c].exchanges <= 1
        /\ calls[c].gets <= 1
        /\ calls[c].pc \in {"send", "await"} => calls[c].exchanges = 1
        /\ calls[c].gets = 1 =>
              /\ calls[c].exchanges = 1
              /\ calls[c].result.access_token.t = "int"
              /\ calls[c].sent = calls[c].result.access_token.v
              /\ \A d \in CallIds \ {c} : calls[d].gets = 1 => calls[d].sent # calls[c].sent
        /\ (calls[c].pc = "done" /\ calls[c].bearer = 0) =>
              calls[c].exchanges = 0 /\ calls[c].gets = 0
        /\ NoTokenInResult(c) => calls[c].gets = 0
        /\ calls[c].outcome = "return" => calls[c].exchanges = 1 /\ calls[c].gets = 1

\* one call got its answer with its own token, one failed in the exchange and
\* one had no bearer token
C10_Witness ==
    \E c, d, e \in CallIds :
        /\ calls[c].outcome = "return" /\ calls[c].exchanges = 1 /\ calls[c].gets = 1
        /\ calls[c].sent = calls[c].result.access_token.v
        /\ NoTokenInResult(d) /\ calls[d].pc = "done" /\ calls[d].gets = 0
        /\ calls[e].pc = "done" /\ calls[e].bearer = 0 /\ calls[e].exchanges = 0

====
